---- MODULE Spec2Model ----
(***************************************************************************)
(* bgpchart.py: fetch, cache and copy BGP charts for an AS-number.         *)
(*                                                                         *)
(* Strings are sequences of tokens.  A token is one character wherever the *)
(* code looks at single characters (the AS-number argument, the prefix     *)
(* test of parsedata, quote) and a fixed chunk of text elsewhere.          *)
(* Every run of main is one invocation (an OS process) of Invocations.     *)
(* The calendar is the day of the month; the day only changes while no     *)
(* invocation is running (a run is taken to fall within one day).          *)
(***************************************************************************)
EXTENDS Integers, Sequences, FiniteSets, TLC

VARIABLES
    today,      \* day of the month of datetime.now()
    ticks,      \* number of day changes so far
    cachedir,   \* state of the CACHE path: "absent", "dir" or "blocked"
    fs,         \* files under CACHE: path -> [mtime, content]
    outputs,    \* files written by copyfile: path -> content
    inv,        \* per invocation: position and local variables of main
    okToday,    \* chart file -> output content of the runs that succeeded today
    concurrent, \* whether invocations may overlap
    cmdlines    \* the command lines the invocations are started with

vars == <<today, ticks, cachedir, fs, outputs, inv, okToday, concurrent, cmdlines>>

----------------------------------------------------------------------------
(* Bounds and program constants *)

MaxTicks == 2
MaxImgs == 2

DaysInMonth == 31
MaxDigits == 10

Invocations == {"i1", "i2"}

URL == "http://bgp.he.net/"
CACHE == "/tmp/bgpchart"

----------------------------------------------------------------------------
(* Strings *)

Rep(c, n) == [i \in 1..n |-> c]

StartsWith(s, prefix) ==
    /\ Len(prefix) <= Len(s)
    /\ SubSeq(s, 1, Len(prefix)) = prefix

EndsWith(s, suffix) ==
    /\ Len(suffix) <= Len(s)
    /\ SubSeq(s, Len(s) - Len(suffix) + 1, Len(s)) = suffix

Digits == {"0", "1", "2", "3", "4", "5", "6", "7", "8", "9"}

RECURSIVE LeadingDigits(_)
LeadingDigits(s) ==
    IF s # <<>> /\ Head(s) \in Digits THEN 1 + LeadingDigits(Tail(s)) ELSE 0

\* '$' of the re module: at the end, or just before a newline that ends the string
AtDollar(s, pos) ==
    \/ pos = Len(s)
    \/ pos = Len(s) - 1 /\ s[Len(s)] = "\n"

HasASPrefix(s) ==
    /\ Len(s) >= 2
    /\ s[1] \in {"A", "a"}
    /\ s[2] \in {"S", "s"}

\* re.match('^(AS)?(\d{1,10}$)', s, re.IGNORECASE): the match and its group(2)
ReMatch(s) ==
    LET rest == IF HasASPrefix(s) THEN SubSeq(s, 3, Len(s)) ELSE s
        k    == LeadingDigits(rest)
    IN  IF k >= 1 /\ k <= MaxDigits /\ AtDollar(rest, k)
        THEN [matched |-> TRUE, group2 |-> SubSeq(rest, 1, k)]
        ELSE [matched |-> FALSE, group2 |-> <<>>]

----------------------------------------------------------------------------
(* Names derived from the arguments *)

ChartName(c) ==
    IF c = "a" THEN "Prefixes Announced Chart"
    ELSE IF c = "o" THEN "Prefixes Originated Chart"
    ELSE "Peer Count Chart"

ChartTitle(asn, ip, c) == <<"A", "S">> \o asn \o <<" IP", ip, " ", ChartName(c)>>

ASURL(asn) == <<URL, "A", "S">> \o asn

DataFile(asn) == <<CACHE, "/", "A", "S">> \o asn \o <<".json">>

ChartFile(asn, ip, c) == <<CACHE, "/", "A", "S">> \o asn \o <<"-", ip, "-", c, ".png">>

RECURSIVE LastSlash(_)
LastSlash(p) ==
    IF p = <<>> THEN 0
    ELSE IF p[Len(p)] = "/" THEN Len(p)
    ELSE LastSlash(SubSeq(p, 1, Len(p) - 1))

\* path.basename: CACHE is a single token, so the last "/" token is the last slash
Basename(p) == SubSeq(p, LastSlash(p) + 1, Len(p))

----------------------------------------------------------------------------
(* in_cache *)

\* strftime('%d'): two digits, zero padded
StrftimeD(d) == <<d \div 10, d % 10>>

\* comparison of two equally long strings of digits
StrGT(a, b) ==
    \/ a[1] > b[1]
    \/ a[1] = b[1] /\ a[2] > b[2]

TooOldFlipped(now, lastupd) == StrGT(StrftimeD(lastupd), StrftimeD(now))
                                 \/ StrftimeD(lastupd) = StrftimeD(now)

\* "now > lastupd": the cached data is too old
TooOld(now, lastupd) == StrGT(StrftimeD(now), StrftimeD(lastupd))

\* the value in_cache returns ("exit" when it ends the process) and the
\* state it leaves the cache directory in
in_cache(dir, files, cachefile, now) ==
    IF dir = "absent" THEN [ret |-> "False", dir |-> "dir"]
    ELSE IF dir = "blocked" THEN [ret |-> "exit", dir |-> dir]
    ELSE IF cachefile \notin DOMAIN files THEN [ret |-> "False", dir |-> dir]
    ELSE IF TooOld(now, files[cachefile].mtime) THEN [ret |-> "False", dir |-> dir]
    ELSE [ret |-> "True", dir |-> dir]

----------------------------------------------------------------------------
(* parsedata *)

SafeChars == {"%", "/", ":", "=", "&", "?", "~", "#", "+", "!", "$", ",", ";",
              "'", "@", "(", ")", "*", "[", "]"}

\* tokens made of letters, digits, '_', '.' and '-' only, which quote never escapes
Unreserved == Digits \cup {"A", "S", "v4", "v6", "a", "o", "p", ".png", "-", "logo"}

\* tokens made of unreserved and safe characters
SafeChunks == {"http://bgp.he.net/graphs/"}

PctCode == [c \in {" ", "<"} |-> IF c = " " THEN <<"%", "2", "0">> ELSE <<"%", "3", "C">>]

RECURSIVE quote(_, _)
quote(s, safe) ==
    IF s = <<>> THEN <<>>
    ELSE (IF Head(s) \in Unreserved \cup safe \cup SafeChunks
          THEN <<Head(s)>> ELSE PctCode[Head(s)]) \o quote(Tail(s), safe)

SelectsAnyAlt(alt, prefix) == TRUE

\* img['alt'].startswith('AS' + asn)
Selects(alt, prefix) == StartsWith(alt, prefix)

RECURSIVE ParseImgs(_, _, _)
ParseImgs(imgs, prefix, data) ==
    IF imgs = <<>> THEN [ok |-> TRUE, data |-> data, err |-> ""]
    ELSE LET img == Head(imgs) IN
         IF "alt" \notin DOMAIN img THEN [ok |-> FALSE, data |-> <<>>, err |-> "KeyError"]
         ELSE IF Selects(img.alt, prefix)
         THEN IF "src" \notin DOMAIN img THEN [ok |-> FALSE, data |-> <<>>, err |-> "KeyError"]
              ELSE ParseImgs(Tail(imgs), prefix, (img.alt :> quote(img.src, SafeChars)) @@ data)
         ELSE ParseImgs(Tail(imgs), prefix, data)

parsedata(page, asn) ==
    IF ~page.asinfo THEN [ok |-> FALSE, data |-> <<>>, err |-> "AttributeError"]
    ELSE ParseImgs(page.imgs, <<"A", "S">> \o asn, <<>>)

----------------------------------------------------------------------------
(* savefile and readfile *)

RECURSIVE SetToSeq(_)
SetToSeq(S) ==
    IF S = {} THEN <<>>
    ELSE LET x == CHOOSE x \in S : TRUE IN <<x>> \o SetToSeq(S \ {x})

\* Every chunk of a file is a tuple: <<"{">> and <<"}">> for the braces of a
\* JSON document, <<key, value>> for one of its members, <<"NUL">> for a
\* hole left by a write beyond the end, <<bytes>> for a piece of an image.
IsBrace(chunk, b) == Len(chunk) = 1 /\ chunk[1] = b

\* json.dumps of a dict of strings
Dumps(d) ==
    LET keys == SetToSeq(DOMAIN d)
    IN  <<(<<"{">>)>> \o [i \in 1..Len(keys) |-> <<keys[i], d[keys[i]]>>] \o <<(<<"}">>)>>

\* json.loads: a document that is not complete raises ValueError
Loads(text) ==
    IF Len(text) >= 2 /\ IsBrace(text[1], "{") /\ IsBrace(text[Len(text)], "}")
       /\ \A i \in 2..(Len(text) - 1) : Len(text[i]) = 2
    THEN LET pairs == SubSeq(text, 2, Len(text) - 1)
         IN  [ok |-> TRUE,
              data |-> [k \in {pairs[i][1] : i \in 1..Len(pairs)} |->
                          LET i == CHOOSE i \in 1..Len(pairs) :
                                     pairs[i][1] = k
                                     /\ \A j \in (i + 1)..Len(pairs) : pairs[j][1] # k
                          IN  pairs[i][2]]]
    ELSE [ok |-> FALSE, data |-> <<>>]

\* open(filepath, 'w+') creates or truncates the file
OpenedKeepsOld(files, filepath, now) == files

Opened(files, filepath, now) ==
    (filepath :> [mtime |-> now, content |-> <<>>]) @@ files

\* a write of one chunk at the writer's own offset
WriteAt(content, pos, chunk) ==
    LET padded == IF Len(content) < pos
                  THEN content \o Rep(<<"NUL">>, pos - Len(content)) ELSE content
    IN  [i \in 1..(IF Len(padded) > pos THEN Len(padded) ELSE pos + 1) |->
            IF i = pos + 1 THEN chunk ELSE padded[i]]

\* readfile: the status it ends with and the data it returns
readfile(files, filepath, ioerror) ==
    IF ioerror \/ filepath \notin DOMAIN files
    THEN [status |-> "exit", data |-> <<>>]
    ELSE IF EndsWith(filepath, <<".json">>)
    THEN LET r == Loads(files[filepath].content)
         IN  IF r.ok THEN [status |-> "ok", data |-> r.data]
             ELSE [status |-> "ValueError", data |-> <<>>]
    ELSE [status |-> "ok", data |-> files[filepath].content]

----------------------------------------------------------------------------
(* The command lines and the remote site *)

NoOutput == [set |-> FALSE, path |-> <<>>]
OutputTo(path) == [set |-> TRUE, path |-> path]

Cmd(asn, ip, c, o) == [asn |-> asn, ip |-> ip, c |-> c, o |-> o]

CmdLines ==
    { Cmd(<<"1">>, "v4", "a", NoOutput),
      Cmd(<<"A", "S", "1">>, "v4", "a", NoOutput),
      Cmd(<<"a", "s", "1">>, "v6", "p", OutputTo(<<"out.png">>)),
      Cmd(<<"1", "\n">>, "v4", "o", NoOutput),
      Cmd(<<"A", "s", "1", "0">>, "v4", "a", NoOutput),
      Cmd(Rep("4", MaxDigits), "v4", "a", OutputTo(<<"out.png">>)),
      Cmd(<<>>, "v4", "a", NoOutput),
      Cmd(<<"A", "S">>, "v4", "a", NoOutput),
      Cmd(<<"A", "1">>, "v4", "a", NoOutput),
      Cmd(<<"1", "x">>, "v4", "a", NoOutput),
      Cmd(<<"x", "1">>, "v4", "a", NoOutput),
      Cmd(<<"1", "\n", "\n">>, "v4", "a", NoOutput),
      Cmd(Rep("9", MaxDigits + 1), "v4", "a", NoOutput),
      Cmd(<<"A", "S">> \o Rep("9", MaxDigits + 1), "v4", "a", NoOutput) }

\* two runs for the same AS-number and chart, and one that is rejected
ConcCmdLines ==
    { Cmd(<<"A", "S", "1">>, "v4", "a", NoOutput),
      Cmd(<<"A", "1">>, "v4", "a", NoOutput) }

ChartSrc(asn, ip, c) ==
    <<"http://bgp.he.net/graphs/", "A", "S">> \o asn \o <<" ", ip, "-", c, ".png">>

ChartImg(asn, ip, c) == [alt |-> ChartTitle(asn, ip, c), src |-> ChartSrc(asn, ip, c)]

Logo == [alt |-> <<"logo">>, src |-> <<"http://bgp.he.net/graphs/", "logo", ".png">>]

\* the pages the site answers a request for AS<asn> with
SitePages(asn) ==
    { [asinfo |-> FALSE, imgs |-> <<>>],
      [asinfo |-> TRUE, imgs |-> <<>>],
      [asinfo |-> TRUE, imgs |-> <<[src |-> Logo.src]>>],
      [asinfo |-> TRUE,
       imgs |-> <<Logo, ChartImg(asn, "v4", "a"), ChartImg(asn, "v4", "o")>>],
      [asinfo |-> TRUE,
       imgs |-> <<ChartImg(asn \o <<"0">>, "v4", "a"), ChartImg(asn, "v4", "a"),
                  ChartImg(asn, "v6", "p")>>] }

Images == { <<(<<"PNG">>), (<<"IDAT">>)>>, <<(<<"GIF">>)>> }

\* what urlopen(req).read() does: a body, an HTTPError or another URLError
Responses(bodies) ==
    {[kind |-> "ok", body |-> b, code |-> 200] : b \in bodies}
    \cup {[kind |-> "HTTPError", body |-> <<>>, code |-> 404],
          [kind |-> "URLError", body |-> <<>>, code |-> 0]}

----------------------------------------------------------------------------
(* main *)

Fresh ==
    [pc |-> "idle", args |-> Cmd(<<>>, "v4", "a", NoOutput), asn |-> <<>>,
     chart |-> <<>>, datafile |-> <<>>, chartfile |-> <<>>,
     validchart |-> FALSE, validdata |-> FALSE, srclinks |-> <<>>,
     page |-> [asinfo |-> FALSE, imgs |-> <<>>], chartimg |-> <<>>,
     outfile |-> <<>>, f |-> [buf |-> <<>>, pos |-> 0], err |-> <<>>,
     trace |-> <<>>, fs0 |-> <<>>, dir0 |-> "absent", rerun |-> FALSE]

Running(p) == inv[p].pc \notin {"idle", "gone"}
Ended(p) == inv[p].pc \in {"done", "exit", "crash"}

Exit(r, msg) == [r EXCEPT !.pc = "exit", !.err = msg]
Crash(r, exception) == [r EXCEPT !.pc = "crash", !.err = <<exception>>]
Did(r, event) == [r EXCEPT !.trace = Append(@, event)]

\* lines 122-167: the arguments, the AS-number, the chart title, the cache paths
ParseArgs(p) ==
    /\ inv[p].pc = "idle"
    /\ concurrent \/ \A q \in Invocations \ {p} : ~Running(q)
    /\ \E args \in cmdlines :
         LET m   == ReMatch(args.asn)
             asn == m.group2
             r   == [inv[p] EXCEPT !.args = args, !.fs0 = fs, !.dir0 = cachedir]
         IN  inv' = [inv EXCEPT ![p] =
                 IF ~m.matched THEN Exit(r, <<"Invalid AS-number">>)
                 ELSE [r EXCEPT !.pc = "chkchart", !.asn = asn,
                                !.chart = ChartTitle(asn, args.ip, args.c),
                                !.datafile = DataFile(asn),
                                !.chartfile = ChartFile(asn, args.ip, args.c),
                                !.rerun = ChartFile(asn, args.ip, args.c) \in DOMAIN okToday]]
    /\ UNCHANGED <<today, ticks, cachedir, fs, outputs, okToday, concurrent, cmdlines>>

\* line 168: in_cache(chartfile)
CheckChartCache(p) ==
    /\ inv[p].pc = "chkchart"
    /\ LET r == in_cache(cachedir, fs, inv[p].chartfile, today)
       IN  /\ cachedir' = r.dir
           /\ inv' = [inv EXCEPT ![p] =
                 IF r.ret = "exit" THEN Exit(@, <<"Failed to create cache directory">>)
                 ELSE IF r.ret = "True" THEN [@ EXCEPT !.validchart = TRUE, !.pc = "copy"]
                 ELSE [@ EXCEPT !.pc = "chkdata"]]
    /\ UNCHANGED <<today, ticks, fs, outputs, okToday, concurrent, cmdlines>>

\* line 174: in_cache(datafile)
CheckDataCache(p) ==
    /\ inv[p].pc = "chkdata"
    /\ LET r == in_cache(cachedir, fs, inv[p].datafile, today)
       IN  /\ cachedir' = r.dir
           /\ inv' = [inv EXCEPT ![p] =
                 IF r.ret = "exit" THEN Exit(@, <<"Failed to create cache directory">>)
                 ELSE IF r.ret = "True" THEN [@ EXCEPT !.validdata = TRUE, !.pc = "readdata"]
                 ELSE [@ EXCEPT !.pc = "fetchpage"]]
    /\ UNCHANGED <<today, ticks, fs, outputs, okToday, concurrent, cmdlines>>

\* line 177: srclinks = readfile(datafile)
ReadData(p) ==
    /\ inv[p].pc = "readdata"
    /\ \E ioerror \in BOOLEAN :
         LET r == readfile(fs, inv[p].datafile, ioerror)
         IN  inv' = [inv EXCEPT ![p] =
                 IF r.status = "exit" THEN Exit(@, <<"Failed to read", inv[p].datafile>>)
                 ELSE IF r.status = "ok"
                 THEN [Did(@, <<"read", inv[p].datafile>>) EXCEPT
                          !.srclinks = r.data, !.pc = "fetchimg"]
                 ELSE Crash(Did(@, <<"read", inv[p].datafile>>), r.status)]
    /\ UNCHANGED <<today, ticks, cachedir, fs, outputs, okToday, concurrent, cmdlines>>

\* fetchdata: the invocation after the request for url was answered by resp
fetchdata(r, url, resp) ==
    IF resp.kind = "ok" THEN Did(r, <<"fetch", url>>)
    ELSE IF resp.kind = "HTTPError"
    THEN Exit(Did(r, <<"fetch", url>>), <<"Failed to retrieve", url, resp.code>>)
    ELSE Crash(Did(r, <<"fetch", url>>), resp.kind)

\* line 182: page = fetchdata(ASURL)
FetchPage(p) ==
    /\ inv[p].pc = "fetchpage"
    /\ \E resp \in Responses(SitePages(inv[p].asn)) :
         LET r == fetchdata(inv[p], ASURL(inv[p].asn), resp)
         IN  inv' = [inv EXCEPT ![p] =
                 IF resp.kind = "ok" THEN [r EXCEPT !.page = resp.body, !.pc = "parse"]
                 ELSE r]
    /\ UNCHANGED <<today, ticks, cachedir, fs, outputs, okToday, concurrent, cmdlines>>

\* line 184: srclinks = parsedata(page, asn)
ParsePage(p) ==
    /\ inv[p].pc = "parse"
    /\ LET r == parsedata(inv[p].page, inv[p].asn)
       IN  inv' = [inv EXCEPT ![p] =
               IF r.ok THEN [Did(@, <<"parse">>) EXCEPT !.srclinks = r.data, !.pc = "fetchimg"]
               ELSE Crash(@, r.err)]
    /\ UNCHANGED <<today, ticks, cachedir, fs, outputs, okToday, concurrent, cmdlines>>

AfterFetchAlwaysSavesData(validdata, validchart) == "savedata"

\* lines 189-194: what is saved once the chart image is there
AfterFetch(validdata, validchart) ==
    IF ~validdata THEN "savedata"
    ELSE IF ~validchart THEN "savechart"
    ELSE "copy"

AfterChartErrorKeepsGoing(r, url, resp) ==
    IF resp.kind = "ok" THEN [fetchdata(r, url, resp) EXCEPT !.chartimg = resp.body]
    ELSE Did(r, <<"fetch", url>>)

\* line 187: the invocation after fetchdata(srclinks[chart]) was answered by resp
AfterChartFetch(r, url, resp) ==
    IF resp.kind = "ok" THEN [fetchdata(r, url, resp) EXCEPT !.chartimg = resp.body]
    ELSE fetchdata(r, url, resp)

\* line 187: chartimg = fetchdata(srclinks[chart])
FetchChart(p) ==
    /\ inv[p].pc = "fetchimg"
    /\ IF inv[p].chart \notin DOMAIN inv[p].srclinks
       THEN inv' = [inv EXCEPT ![p] = Crash(@, "KeyError")]
       ELSE \E resp \in Responses(Images) :
              LET r == AfterChartFetch(inv[p], inv[p].srclinks[inv[p].chart], resp)
              IN  inv' = [inv EXCEPT ![p] =
                      IF r.pc = "fetchimg"
                      THEN [r EXCEPT !.pc = AfterFetch(r.validdata, r.validchart)]
                      ELSE r]
    /\ UNCHANGED <<today, ticks, cachedir, fs, outputs, okToday, concurrent, cmdlines>>

SavePath(r) == IF r.pc \in {"savedata", "writedata"} THEN r.datafile ELSE r.chartfile

\* savefile, lines 93-95: json.dumps of a dict, then open(filepath, 'w+')
SaveOpen(p) ==
    /\ inv[p].pc \in {"savedata", "savechart"}
    /\ \E ioerror \in BOOLEAN :
         IF ioerror
         THEN /\ inv' = [inv EXCEPT ![p] = Exit(@, <<"Failed to write to", SavePath(inv[p])>>)]
              /\ fs' = fs
         ELSE /\ fs' = Opened(fs, SavePath(inv[p]), today)
              /\ inv' = [inv EXCEPT ![p] =
                     [Did(@, <<"write", SavePath(inv[p])>>) EXCEPT
                        !.f = [buf |-> IF inv[p].pc = "savedata"
                                       THEN Dumps(inv[p].srclinks) ELSE inv[p].chartimg,
                               pos |-> 0],
                        !.pc = IF inv[p].pc = "savedata" THEN "writedata" ELSE "writechart"]]
    /\ UNCHANGED <<today, ticks, cachedir, outputs, okToday, concurrent, cmdlines>>

\* savefile, line 96: the data reaches the file chunk by chunk
SaveWrite(p) ==
    /\ inv[p].pc \in {"writedata", "writechart"}
    /\ inv[p].f.buf # <<>>
    /\ SavePath(inv[p]) \in DOMAIN fs
    /\ fs' = [fs EXCEPT ![SavePath(inv[p])] =
                [mtime |-> today,
                 content |-> WriteAt(@.content, inv[p].f.pos, Head(inv[p].f.buf))]]
    /\ inv' = [inv EXCEPT ![p].f = [buf |-> Tail(@.buf), pos |-> @.pos + 1]]
    /\ UNCHANGED <<today, ticks, cachedir, outputs, okToday, concurrent, cmdlines>>

\* savefile, line 97: f.close(), and back in main
SaveClose(p) ==
    /\ inv[p].pc \in {"writedata", "writechart"}
    /\ inv[p].f.buf = <<>>
    /\ inv' = [inv EXCEPT ![p].pc =
                  IF inv[p].pc = "writedata" /\ ~inv[p].validchart THEN "savechart" ELSE "copy"]
    /\ UNCHANGED <<today, ticks, cachedir, fs, outputs, okToday, concurrent, cmdlines>>

OutfileKeepsDir(o, chartfile) == IF ~o.set THEN chartfile ELSE o.path

\* lines 196-200
Outfile(o, chartfile) == IF ~o.set THEN Basename(chartfile) ELSE o.path

\* lines 203-209: copyfile(chartfile, outfile) and the 'Saved' line; the handler
\* of IOError formats three fields from two arguments, which raises IndexError
CopyChart(p) ==
    /\ inv[p].pc = "copy"
    /\ LET outfile == Outfile(inv[p].args.o, inv[p].chartfile) IN
       \E ioerror \in BOOLEAN :
         IF ioerror \/ inv[p].chartfile \notin DOMAIN fs
         THEN /\ inv' = [inv EXCEPT ![p] = Crash([@ EXCEPT !.outfile = outfile], "IndexError")]
              /\ UNCHANGED <<outputs, okToday>>
         ELSE /\ outputs' = (outfile :> fs[inv[p].chartfile].content) @@ outputs
              /\ okToday' = (inv[p].chartfile :> fs[inv[p].chartfile].content) @@ okToday
              /\ inv' = [inv EXCEPT ![p] =
                     [Did(Did(@, <<"copy", inv[p].chartfile, outfile>>),
                          <<"print", <<"Saved ">> \o inv[p].chart \o <<": ">> \o outfile>>)
                        EXCEPT !.outfile = outfile, !.pc = "done"]]
    /\ UNCHANGED <<today, ticks, cachedir, fs, concurrent, cmdlines>>

\* the process is gone
Reap(p) ==
    /\ Ended(p)
    /\ inv' = [inv EXCEPT ![p] = [Fresh EXCEPT !.pc = "gone"]]
    /\ UNCHANGED <<today, ticks, cachedir, fs, outputs, okToday, concurrent, cmdlines>>

\* midnight
Tick ==
    /\ ticks < MaxTicks
    /\ \A p \in Invocations : ~Running(p)
    /\ today' = IF today = DaysInMonth THEN 1 ELSE today + 1
    /\ ticks' = ticks + 1
    /\ okToday' = <<>>
    /\ UNCHANGED <<cachedir, fs, outputs, inv, concurrent, cmdlines>>

Init ==
    /\ today \in {DaysInMonth - 1, DaysInMonth}
    /\ ticks = 0
    /\ cachedir \in {"absent", "dir", "blocked"}
    /\ fs = <<>>
    /\ outputs = <<>>
    /\ inv = [p \in Invocations |-> Fresh]
    /\ okToday = <<>>
    /\ concurrent = FALSE
    /\ cmdlines = CmdLines

InitConc ==
    /\ today = DaysInMonth
    /\ ticks = 0
    /\ cachedir \in {"absent", "dir"}
    /\ fs = <<>>
    /\ outputs = <<>>
    /\ inv = [p \in Invocations |-> Fresh]
    /\ okToday = <<>>
    /\ concurrent = TRUE
    /\ cmdlines = ConcCmdLines

Next ==
    \/ Tick
    \/ \E p \in Invocations :
         \/ ParseArgs(p)
         \/ CheckChartCache(p)
         \/ CheckDataCache(p)
         \/ ReadData(p)
         \/ FetchPage(p)
         \/ ParsePage(p)
         \/ FetchChart(p)
         \/ SaveOpen(p)
         \/ SaveWrite(p)
         \/ SaveClose(p)
         \/ CopyChart(p)
         \/ Reap(p)

Spec == Init /\ [][Next]_vars

SpecConc == InitConc /\ [][Next]_vars

----------------------------------------------------------------------------
(* parsedata over every page of at most MaxImgs images *)

ParseASNs == {<<"1">>, <<"1", "0">>}

Alts(asn) ==
    { ChartTitle(asn, "v4", "a"), ChartTitle(asn, "v6", "p"),
      ChartTitle(asn \o <<"0">>, "v4", "a"), ChartTitle(<<"2">>, "v4", "a"), <<"logo">> }

Srcs(asn) ==
    { ChartSrc(asn, "v4", "a"), Logo.src, <<"http://bgp.he.net/graphs/", "<", "%", "2", "0">> }

ImgSet(asn) ==
    {[alt |-> a, src |-> s] : a \in Alts(asn), s \in Srcs(asn)}
    \cup {[alt |-> a] : a \in Alts(asn)}
    \cup {[src |-> s] : s \in Srcs(asn)}

AllPages(asn) ==
    {[asinfo |-> FALSE, imgs |-> <<>>]}
    \cup UNION {{[asinfo |-> TRUE, imgs |-> imgs] : imgs \in [1..n -> ImgSet(asn)]} : n \in 0..MaxImgs}

\* an invocation that has just fetched the page
AtParse(asn, page) ==
    [Fresh EXCEPT !.pc = "parse", !.args = Cmd(asn, "v4", "a", NoOutput), !.asn = asn,
                  !.chart = ChartTitle(asn, "v4", "a"), !.datafile = DataFile(asn),
                  !.chartfile = ChartFile(asn, "v4", "a"), !.page = page,
                  !.trace = <<(<<"fetch", ASURL(asn)>>)>>, !.dir0 = "dir"]

InitParse ==
    /\ today = DaysInMonth
    /\ ticks = 0
    /\ cachedir = "dir"
    /\ fs = <<>>
    /\ outputs = <<>>
    /\ \E asn \in ParseASNs : \E page \in AllPages(asn) :
         inv = [p \in Invocations |-> IF p = "i1" THEN AtParse(asn, page) ELSE Fresh]
    /\ okToday = <<>>
    /\ concurrent = FALSE
    /\ cmdlines = CmdLines

NextParse == \E p \in Invocations : ParsePage(p)

SpecParse == InitParse /\ [][NextParse]_vars

----------------------------------------------------------------------------
(* Properties *)

Kinds(trace) == [i \in 1..Len(trace) |-> trace[i][1]]
Fetches(trace) == {i \in 1..Len(trace) : trace[i][1] = "fetch"}
Writes(trace) == {i \in 1..Len(trace) : trace[i][1] = "write"}
LastKind(trace) == IF trace = <<>> THEN "" ELSE trace[Len(trace)][1]

\* the spec's freshness: the file exists and was last modified on today's day number
FreshIn(files, filepath) == filepath \in DOMAIN files /\ files[filepath].mtime = today

ChartFreshAtStart(r) == r.dir0 = "dir" /\ FreshIn(r.fs0, r.chartfile)

\* C1: an invocation that finds its chart cache file fresh when it starts, and
\* likewise one that follows a successful invocation for the same AS-number and
\* chart on the same day, issues no HTTP request, goes on to the copy of the
\* cached chart, and when the copy succeeds the output file holds the cached
\* chart (the content the earlier invocation produced).
C1_FreshChartNoNetwork ==
    \A p \in Invocations :
      LET r == inv[p] IN
      (Running(p) /\ r.pc # "chkchart" /\ (ChartFreshAtStart(r) \/ r.rerun)) =>
        /\ Fetches(r.trace) = {}
        /\ r.fs0 = fs
        /\ r.pc \in {"copy", "done"} \/ (r.pc = "crash" /\ r.err = <<"IndexError">>)
        /\ r.pc = "done" =>
             /\ outputs[r.outfile] = fs[r.chartfile].content
             /\ r.rerun => outputs[r.outfile] = okToday[r.chartfile]
        /\ (r.pc = "copy" /\ r.rerun) => okToday[r.chartfile] = fs[r.chartfile].content

C1_Witness ==
    \E p \in Invocations :
      /\ inv[p].rerun
      /\ inv[p].pc = "done"
      /\ Fetches(inv[p].trace) = {}
      /\ outputs[inv[p].outfile] = <<(<<"PNG">>), (<<"IDAT">>)>>

\* C2: an invocation whose link mapping (parsed or loaded) lacks the requested
\* chart title ends with the fatal error "chart not found", not with a crash.
C2_MissingChartIsFatalError ==
    \A p \in Invocations :
      LET r == inv[p] IN
      (/\ Ended(p)
       /\ LastKind(r.trace) \in {"parse", "read"}
       /\ r.err # <<"ValueError">>
       /\ r.chart \notin DOMAIN r.srclinks) =>
        r.pc = "exit" /\ r.err = <<"chart not found">>

\* C3: an invocation whose copy of the cached chart fails ends with a fatal
\* message (a controlled exit) and prints no 'Saved' line.
C3_CopyFailureIsFatalExit ==
    \A p \in Invocations :
      LET r == inv[p] IN
      (Ended(p) /\ r.outfile # <<>> /\ r.pc # "done") =>
        /\ r.pc = "exit"
        /\ \A i \in 1..Len(r.trace) : r.trace[i][1] # "print"

\* the strings (AS)?\d{1,10}, case-insensitively
InLanguage(s) ==
    \E pre \in {0, 2} : \E n \in 1..MaxDigits :
      /\ Len(s) = pre + n
      /\ pre = 2 => HasASPrefix(s)
      /\ \A i \in (pre + 1)..Len(s) : s[i] \in Digits

\* C4: an AS-number argument of the form (AS)?\d{1,10}, case-insensitively, is
\* accepted with its digits as the AS-number; every other argument is rejected
\* with 'Invalid AS-number' before any HTTP request and any cache file access.
C4_ASNAcceptedIffWellFormed ==
    \A p \in Invocations :
      LET r == inv[p]
          a == r.args.asn
      IN  Running(p) =>
            IF InLanguage(a)
            THEN /\ r.err # <<"Invalid AS-number">>
                 /\ r.asn = SubSeq(a, Len(a) - LeadingDigits(r.asn) + 1, Len(a))
                 /\ r.asn # <<>>
            ELSE /\ r.pc = "exit"
                 /\ r.err = <<"Invalid AS-number">>
                 /\ r.trace = <<>>
                 /\ fs = r.fs0
                 /\ cachedir = r.dir0

\* C5: for an existing cache file in an existing cache directory in_cache
\* returns true only if today's day number equals the file's last-modified day
\* number, and false if the last-modified day number is less than today's.
C5_FreshOnlyIfSameDay ==
    \A p \in Invocations :
      LET r == inv[p] IN
      /\ (r.pc = "copy" /\ r.validchart) => FreshIn(fs, r.chartfile)
      /\ r.pc = "readdata" => FreshIn(fs, r.datafile)
      /\ (r.pc = "chkdata" /\ r.dir0 = "dir" /\ r.chartfile \in DOMAIN fs) =>
           fs[r.chartfile].mtime # today

NoCacheAtStart(r) ==
    \/ r.dir0 = "absent"
    \/ r.dir0 = "dir" /\ r.datafile \notin DOMAIN r.fs0 /\ r.chartfile \notin DOMAIN r.fs0

\* C6: an invocation that starts without a cache and succeeds has fetched the
\* listing page, parsed it, fetched the selected chart image, written the JSON
\* cache file, written the chart cache file, copied the chart cache file to the
\* output path (by default its basename) and printed 'Saved <title>: <path>',
\* in this order; both cache files then exist and the output file holds the
\* content of the chart cache file.
C6_ColdRunOrder ==
    \A p \in Invocations :
      LET r == inv[p] IN
      (r.pc = "done" /\ NoCacheAtStart(r)) =>
        /\ Kinds(r.trace) = <<"fetch", "parse", "fetch", "write", "write", "copy", "print">>
        /\ r.trace[1][2] = ASURL(r.asn)
        /\ r.chart \in DOMAIN r.srclinks
        /\ r.srclinks = parsedata(r.page, r.asn).data
        /\ r.trace[3][2] = r.srclinks[r.chart]
        /\ r.trace[4][2] = r.datafile
        /\ r.trace[5][2] = r.chartfile
        /\ r.trace[6][2] = r.chartfile
        /\ r.trace[6][3] = r.outfile
        /\ ~r.args.o.set => r.outfile = SubSeq(r.chartfile, 3, Len(r.chartfile))
        /\ r.args.o.set => r.outfile = r.args.o.path
        /\ r.trace[7][2] = <<"Saved ">> \o r.chart \o <<": ">> \o r.outfile
        /\ r.datafile \in DOMAIN fs
        /\ r.chartfile \in DOMAIN fs
        /\ Loads(fs[r.datafile].content).ok
        /\ Loads(fs[r.datafile].content).data = r.srclinks
        /\ fs[r.chartfile].content = r.chartimg
        /\ outputs[r.outfile] = fs[r.chartfile].content

C6_Witness ==
    \E p \in Invocations :
      /\ inv[p].pc = "done"
      /\ inv[p].dir0 = "absent"
      /\ ~inv[p].args.o.set
      /\ Len(inv[p].trace) = 7
      /\ outputs[inv[p].outfile] = inv[p].chartimg

DataFreshChartNot(r) ==
    /\ r.dir0 = "dir"
    /\ FreshIn(r.fs0, r.datafile)
    /\ ~FreshIn(r.fs0, r.chartfile)

\* C7: an invocation that starts with a fresh JSON cache file and no fresh
\* chart cache file never fetches or parses the listing page and never writes
\* the JSON file; it loads the mapping from the JSON file, issues at most one
\* HTTP request, for the URL under the chart title, and when it succeeds it
\* has issued exactly that request and written the chart cache file.
C7_DataCacheReused ==
    \A p \in Invocations :
      LET r == inv[p] IN
      (Running(p) /\ DataFreshChartNot(r)) =>
        /\ \A i \in 1..Len(r.trace) :
             /\ r.trace[i][1] # "parse"
             /\ r.trace[i][1] = "write" => r.trace[i][2] = r.chartfile
             /\ r.trace[i][1] = "fetch" => r.trace[i][2] = r.srclinks[r.chart]
        /\ Cardinality(Fetches(r.trace)) <= 1
        /\ fs[r.datafile] = r.fs0[r.datafile]
        /\ r.pc \in {"fetchimg", "savechart", "writechart", "copy", "done"} =>
             /\ r.validdata
             /\ r.srclinks = Loads(r.fs0[r.datafile].content).data
        /\ r.pc = "done" =>
             /\ Kinds(r.trace) = <<"read", "fetch", "write", "copy", "print">>
             /\ fs[r.chartfile].content = r.chartimg

C7_Witness ==
    \E p \in Invocations :
      /\ inv[p].pc = "done"
      /\ DataFreshChartNot(inv[p])
      /\ Cardinality(Fetches(inv[p].trace)) = 1
      /\ Cardinality(Writes(inv[p].trace)) = 1

Selected(page, asn) ==
    {i \in 1..Len(page.imgs) :
       "alt" \in DOMAIN page.imgs[i] /\ StartsWith(page.imgs[i].alt, <<"A", "S">> \o asn)}

Parsed(p) == inv[p].pc = "fetchimg" /\ ~inv[p].validdata

Writing(p) == inv[p].pc \in {"writedata", "writechart"} /\ inv[p].f.buf # <<>>

\* C9: nothing keeps a cache file that an invocation has opened (truncated) and
\* not finished writing from being judged fresh: in_cache answers true for it
\* to every invocation.  The witness is a state in which another invocation
\* has judged the chart file fresh and copied it while it was incomplete.
C9_OpenFileLooksFresh ==
    \A p \in Invocations :
      Writing(p) => in_cache(cachedir, fs, SavePath(inv[p]), today).ret = "True"

C9_Witness ==
    \E p, q \in Invocations :
      /\ p # q
      /\ inv[p].chartfile = inv[q].chartfile
      /\ inv[q].pc = "writechart"
      /\ inv[q].f.buf # <<>>
      /\ inv[p].pc = "done"
      /\ inv[p].validchart
      /\ Len(outputs[inv[p].outfile]) < Len(inv[q].chartimg)
      /\ outputs[inv[p].outfile] = fs[inv[q].chartfile].content

\* C10: as long as an invocation that found no valid chart cache has not
\* fetched the chart image successfully, and so when it has ended with the
\* listing page or the chart image refused or with the chart title missing, it
\* has written no cache file and no output file: the cache files are as they
\* were when it started.
C10_NoWriteBeforeChartFetched ==
    \A p \in Invocations :
      LET r == inv[p] IN
      (Running(p) /\ ~r.validchart /\ r.chartimg = <<>>) =>
        /\ fs = r.fs0
        /\ \A i \in 1..Len(r.trace) : r.trace[i][1] \notin {"write", "copy", "print"}
        /\ r.outfile = <<>>
        /\ r.pc \notin {"savedata", "writedata", "savechart", "writechart", "copy", "done"}

C10_Witness ==
    \E p \in Invocations :
      /\ inv[p].pc = "exit"
      /\ Kinds(inv[p].trace) = <<"fetch", "parse", "fetch">>
      /\ inv[p].chart \in DOMAIN inv[p].srclinks
      /\ inv[p].datafile \notin DOMAIN fs

====
